---- MODULE Spec2Model ----
(***************************************************************************)
(* Extended statistics objects: CREATE STATISTICS and the guts of DROP     *)
(* STATISTICS, modelled from src/backend/commands/statscmds.c.             *)
(*                                                                         *)
(* The catalog (pg_statistic_ext rows), the dependency store (pg_depend    *)
(* edges), the queue of relcache invalidations of the running transaction  *)
(* and the table locks it holds are the state.  One action runs one whole  *)
(* call of CreateStatistics or RemoveStatisticsById; FinishTransaction     *)
(* ends the caller's transaction.  `last` records the call that has just   *)
(* returned (its statement, its outcome, the effects in the order the code *)
(* performs them, and the state it started from).                          *)
(*                                                                         *)
(* Two further specifications run the same code: one with the DROP         *)
(* commands of the dependency store around it, one with two sessions that  *)
(* perform the effects of their calls one at a time, next to other         *)
(* transactions that lock the tables.                                      *)
(***************************************************************************)
EXTENDS Integers, Sequences, FiniteSets, TLC

VARIABLES
    rows,           \* pg_statistic_ext: the set of statistics rows
    deps,           \* pg_depend: the set of dependency edges
    pendingInval,   \* relcache invalidations queued by the running transaction
    locks,          \* table locks held by the running transaction
    nextOid,        \* the next object identifier the catalog hands out
    assert_enabled, \* the build: TRUE when Assert() is compiled in
    pc,             \* "idle" between calls, "returned" when a call has returned
    last,           \* the call that has just returned
    dropped,        \* the tables and schemas that DROP commands have removed
    removed,        \* the statistics rows that DROP commands have removed
    sess,           \* the concurrent sessions: each one's call and how far it is
    others          \* table locks held by transactions other than the sessions

vars == <<rows, deps, pendingInval, locks, nextOid, assert_enabled, pc, last,
          dropped, removed, sess, others>>

----------------------------------------------------------------------------
(* Bounds of the model *)

\* The largest number of columns of one statistics object.  The program takes
\* the value from statistics/statistics.h; the model scales it down.
STATS_MAX_DIMENSIONS == 3

\* The longest WITH (...) option list of the option-centred specification.
MaxOptions == 3

\* The number of object identifiers the catalog hands out in one behaviour.
MaxOid == 2

----------------------------------------------------------------------------
(* The collaborators' catalogs: relations, attributes, types *)

Relations == {"t1", "m1", "v1"}

\* pg_class.relkind: t1 is a table, m1 a materialized view, v1 a view
relkind(relid) ==
    IF relid = "t1" THEN "r" ELSE IF relid = "m1" THEN "m" ELSE "v"

RELKIND_RELATION == "r"
RELKIND_MATVIEW == "m"
RELKIND_FOREIGN_TABLE == "f"
RELKIND_PARTITIONED_TABLE == "p"

NoTuple == [attnum |-> 0, lt_opr |-> FALSE]

\* pg_attribute joined with the type cache: attribute number, and whether the
\* attribute's type has a less-than operator.  ctid and xmin are system
\* columns (xmin's type xid has no ordering), j is a user column of a type
\* without ordering, zz is no column at all.
PgAttribute ==
    [a    |-> [attnum |-> 1,  lt_opr |-> TRUE],
     b    |-> [attnum |-> 2,  lt_opr |-> TRUE],
     c    |-> [attnum |-> 3,  lt_opr |-> TRUE],
     j    |-> [attnum |-> 4,  lt_opr |-> FALSE],
     ctid |-> [attnum |-> -1, lt_opr |-> TRUE],
     xmin |-> [attnum |-> -3, lt_opr |-> FALSE]]

AttNames == {"a", "b", "c", "j", "ctid", "xmin", "zz"}

SearchSysCacheAttName(relid, attname) ==
    IF attname \in DOMAIN PgAttribute THEN PgAttribute[attname] ELSE NoTuple

HeapTupleIsValid(tup) == tup # NoTuple

GetUserId == "u1"

----------------------------------------------------------------------------
(* Values *)

STATS_EXT_NDISTINCT == "d"
STATS_EXT_DEPENDENCIES == "f"

DEPENDENCY_AUTO == "a"

\* the lock modes of the lock manager that meet on a table here: reads take
\* AccessShareLock, writes RowExclusiveLock, statistics maintenance (ANALYZE,
\* VACUUM) and CREATE STATISTICS ShareUpdateExclusiveLock, schema-changing DDL
\* AccessExclusiveLock
AccessShareLock == "AccessShareLock"
RowExclusiveLock == "RowExclusiveLock"
ShareUpdateExclusiveLock == "ShareUpdateExclusiveLock"
AccessExclusiveLock == "AccessExclusiveLock"

LockModes ==
    {AccessShareLock, RowExclusiveLock, ShareUpdateExclusiveLock, AccessExclusiveLock}

\* the lock manager's conflict table, for these modes
LockConflicts(held, wanted) ==
    \/ held = AccessExclusiveLock
    \/ wanted = AccessExclusiveLock
    \/ held = ShareUpdateExclusiveLock /\ wanted = ShareUpdateExclusiveLock

InvalidObjectAddress == [classId |-> "Invalid", objectId |-> 0]

ObjectAddressSet(classId, objectId) == [classId |-> classId, objectId |-> objectId]

NoStmt ==
    [defnames |-> <<"", "">>, if_not_exists |-> FALSE, relation |-> "",
     keys |-> <<>>, options |-> <<>>]

Effect(type, arg) == [type |-> type, arg |-> arg]

Result(outcome, address, effects) ==
    [outcome |-> outcome, address |-> address, effects |-> effects]

\* ereport(ERROR, ...): the call ends here with what it has done so far
Error(kind, effects) == Result(kind, InvalidObjectAddress, effects)

----------------------------------------------------------------------------
(* CreateStatistics, from its last step back to its first *)

\* compare_int16 with its operands exchanged
compare_int16_reversed(av, bv) == bv - av

\* qsort comparator for the attnums: both operands are int16, the difference
\* is taken in int and cannot overflow
compare_int16(av, bv) == av - bv

RECURSIVE qsort_insert(_, _)
qsort_insert(sorted, x) ==
    IF sorted = <<>> THEN <<x>>
    ELSE IF compare_int16(x, Head(sorted)) <= 0 THEN <<x>> \o sorted
    ELSE <<Head(sorted)>> \o qsort_insert(Tail(sorted), x)

\* qsort left out: the attnums stay in the order of the statement
qsort_none(attnums) == attnums

\* qsort(attnums, numcols, sizeof(int16), compare_int16)
RECURSIVE qsort(_)
qsort(attnums) ==
    IF attnums = <<>> THEN <<>>
    ELSE qsort_insert(qsort(SubSeq(attnums, 1, Len(attnums) - 1)),
                      attnums[Len(attnums)])

\* the duplicate scan started one element late (i = 2)
HasDuplicate_fromSecondPair(attnums) ==
    \E i \in 3..Len(attnums) : attnums[i] = attnums[i - 1]

\* for (i = 1; i < numcols; i++) if (attnums[i] == attnums[i - 1])
HasDuplicate(attnums) ==
    \E i \in 2..Len(attnums) : attnums[i] = attnums[i - 1]

buildint2vector(attnums) == attnums

\* SearchSysCacheExists2(STATEXTNAMENSP, name, namespace)
SearchSysCacheExists2(stxname, namespaceId) ==
    \E r \in rows : r.stxname = stxname /\ r.stxnamespace = namespaceId

\* SearchSysCache1(STATEXTOID, statsOid): the rows with that identifier
SearchSysCache1(statsOid) == {r \in rows : r.oid = statsOid}

\* the dependency on the schema left out
RegisterDependencies_tableOnly(relid, namespaceId, statoid, effects) ==
    LET childobject == ObjectAddressSet("StatisticExt", statoid)
        onTable  == [dependent |-> childobject,
                     referenced |-> ObjectAddressSet("Relation", relid),
                     deptype |-> DEPENDENCY_AUTO]
    IN  Result("OK", ObjectAddressSet("StatisticExt", statoid),
               effects \o <<Effect("depend", onTable)>>)

\* the dependency registration and the return of the new object's address
RegisterDependencies(relid, namespaceId, statoid, effects) ==
    LET childobject == ObjectAddressSet("StatisticExt", statoid)
        onTable  == [dependent |-> childobject,
                     referenced |-> ObjectAddressSet("Relation", relid),
                     deptype |-> DEPENDENCY_AUTO]
        onSchema == [dependent |-> childobject,
                     referenced |-> ObjectAddressSet("Namespace", namespaceId),
                     deptype |-> DEPENDENCY_AUTO]
    IN  Result("OK", ObjectAddressSet("StatisticExt", statoid),
               effects \o <<Effect("depend", onTable), Effect("depend", onSchema)>>)

\* the invalidation issued last, after the dependency registration
InsertTuple_invalLast(stmt, relid, stxkeys, stxkind, effects) ==
    LET statoid == nextOid
        htup == [oid |-> statoid,
                 stxrelid |-> relid,
                 stxname |-> stmt.defnames[2],
                 stxnamespace |-> stmt.defnames[1],
                 stxowner |-> GetUserId,
                 stxkeys |-> stxkeys,
                 stxkind |-> stxkind,
                 stxndistinct |-> "null",
                 stxdependencies |-> "null"]
        registered == RegisterDependencies(relid, stmt.defnames[1], statoid,
                          effects \o <<Effect("insert", htup), Effect("close", relid)>>)
    IN  Result(registered.outcome, registered.address,
               registered.effects \o <<Effect("inval", relid)>>)

Sessions == {"s1", "s2"}

\* the rows the sessions have inserted and not yet committed: no catalog
\* lookup of another transaction sees them, the unique index does
Uncommitted == UNION {sess[s].inserted : s \in Sessions}

\* CatalogTupleInsert(statrel, htup): the row goes into the heap and into the
\* indexes of pg_statistic_ext; the unique index on (stxname, stxnamespace)
\* refuses a second row of one name in one schema, and waits for the end of
\* the transaction that has inserted such a row and not yet committed it
CatalogTupleInsert(htup, effects) ==
    IF SearchSysCacheExists2(htup.stxname, htup.stxnamespace)
    THEN Error("UniqueViolation", effects)
    ELSE IF \E r \in Uncommitted :
                r.stxname = htup.stxname /\ r.stxnamespace = htup.stxnamespace
    THEN Result("Waiting", InvalidObjectAddress, effects)
    ELSE Result("OK", InvalidObjectAddress, effects \o <<Effect("insert", htup)>>)

\* the row put into the heap alone, its index entries forgotten
InsertTuple_heapOnly(stmt, relid, stxkeys, stxkind, effects) ==
    LET statoid == nextOid
        htup == [oid |-> statoid,
                 stxrelid |-> relid,
                 stxname |-> stmt.defnames[2],
                 stxnamespace |-> stmt.defnames[1],
                 stxowner |-> GetUserId,
                 stxkeys |-> stxkeys,
                 stxkind |-> stxkind,
                 stxndistinct |-> "null",
                 stxdependencies |-> "null"]
    IN  RegisterDependencies(relid, stmt.defnames[1], statoid,
            effects \o <<Effect("insert", htup),
                         Effect("inval", relid),
                         Effect("close", relid)>>)

\* the table closed with relation_close(rel, ShareUpdateExclusiveLock): the
\* lock is given back with the close
InsertTuple_closeUnlocks(stmt, relid, stxkeys, stxkind, effects) ==
    LET statoid == nextOid
        htup == [oid |-> statoid,
                 stxrelid |-> relid,
                 stxname |-> stmt.defnames[2],
                 stxnamespace |-> stmt.defnames[1],
                 stxowner |-> GetUserId,
                 stxkeys |-> stxkeys,
                 stxkind |-> stxkind,
                 stxndistinct |-> "null",
                 stxdependencies |-> "null"]
        inserted == CatalogTupleInsert(htup, effects)
    IN  IF inserted.outcome # "OK" THEN inserted
        ELSE RegisterDependencies(relid, stmt.defnames[1], statoid,
                 inserted.effects \o <<Effect("inval", relid),
                                       Effect("close", relid),
                                       Effect("unlock", relid)>>)

\* the tuple is formed and inserted, the relcache entry of the table is
\* invalidated, the table is closed with its lock kept
InsertTuple(stmt, relid, stxkeys, stxkind, effects) ==
    LET statoid == nextOid
        htup == [oid |-> statoid,
                 stxrelid |-> relid,
                 stxname |-> stmt.defnames[2],
                 stxnamespace |-> stmt.defnames[1],
                 stxowner |-> GetUserId,
                 stxkeys |-> stxkeys,
                 stxkind |-> stxkind,
                 stxndistinct |-> "null",
                 stxdependencies |-> "null"]
        inserted == CatalogTupleInsert(htup, effects)
    IN  IF inserted.outcome # "OK" THEN inserted
        ELSE RegisterDependencies(relid, stmt.defnames[1], statoid,
                 inserted.effects \o <<Effect("inval", relid),
                                       Effect("close", relid)>>)

\* foreach(l, stmt->options): the flags after the options read so far
RECURSIVE ParseOptions(_, _)
ParseOptions(options, flags) ==
    IF options = <<>> THEN flags
    ELSE LET opt == Head(options) IN
         IF opt.defname = "ndistinct"
         THEN ParseOptions(Tail(options),
                  [flags EXCEPT !.build_ndistinct = opt.arg, !.requested_type = TRUE])
         ELSE IF opt.defname = "dependencies"
         THEN ParseOptions(Tail(options),
                  [flags EXCEPT !.build_dependencies = opt.arg, !.requested_type = TRUE])
         ELSE [flags EXCEPT !.unrecognized = TRUE]

\* the default taken whenever no kind is enabled, not only when no option
\* was given
DefaultKinds_whenNoneEnabled(flags) ==
    IF ~flags.build_ndistinct /\ ~flags.build_dependencies
    THEN [flags EXCEPT !.build_ndistinct = TRUE, !.build_dependencies = TRUE]
    ELSE flags

\* If no statistic type was specified, build them all.
DefaultKinds(flags) ==
    IF ~flags.requested_type
    THEN [flags EXCEPT !.build_ndistinct = TRUE, !.build_dependencies = TRUE]
    ELSE flags

\* construct the char array of enabled statistic types
EnabledTypes(flags) ==
    (IF flags.build_ndistinct THEN <<STATS_EXT_NDISTINCT>> ELSE <<>>)
    \o (IF flags.build_dependencies THEN <<STATS_EXT_DEPENDENCIES>> ELSE <<>>)

\* the option list as the code reads it: an error, or the array of types
SelectKinds(options) ==
    LET parsed == ParseOptions(options,
                      [build_ndistinct |-> FALSE, build_dependencies |-> FALSE,
                       requested_type |-> FALSE, unrecognized |-> FALSE])
    IN  [unrecognized |-> parsed.unrecognized,
         types |-> IF parsed.unrecognized THEN <<>>
                   ELSE EnabledTypes(DefaultKinds(parsed))]

\* Assert(ntypes > 0 && ntypes <= lengthof(types)): a build with assertions
\* aborts the backend, a build without them goes on
AssertTypes(types) ==
    assert_enabled => (Len(types) > 0 /\ Len(types) <= 2)

\* option parsing and everything after it
BuildKinds(stmt, relid, stxkeys, effects) ==
    LET kinds == SelectKinds(stmt.options) IN
    IF kinds.unrecognized THEN Error("UnrecognizedOption", effects)
    ELSE IF ~AssertTypes(kinds.types) THEN Error("AssertFailure", effects)
    ELSE InsertTuple(stmt, relid, stxkeys, kinds.types, effects)

\* the tuple inserted before the options are read
NormalizeKeys_insertBeforeOptions(stmt, relid, attnums, effects) ==
    IF Len(attnums) < 2 THEN Error("InvalidObjectDefinition", effects)
    ELSE LET sorted == qsort(attnums) IN
         IF HasDuplicate(sorted) THEN Error("DuplicateColumn", effects)
         ELSE LET kinds == SelectKinds(stmt.options)
                  inserted == InsertTuple(stmt, relid, buildint2vector(sorted),
                                          kinds.types, effects)
              IN  IF kinds.unrecognized
                  THEN Error("UnrecognizedOption", inserted.effects)
                  ELSE inserted

\* the arity check, the sort, the duplicate check and everything after them
NormalizeKeys(stmt, relid, attnums, effects) ==
    IF Len(attnums) < 2 THEN Error("InvalidObjectDefinition", effects)
    ELSE LET sorted == qsort(attnums) IN
         IF HasDuplicate(sorted) THEN Error("DuplicateColumn", effects)
         ELSE BuildKinds(stmt, relid, buildint2vector(sorted), effects)

\* the column count compared with > for >=
RECURSIVE ResolveKeys_offByOne(_, _, _)
ResolveKeys_offByOne(relid, keys, attnums) ==
    IF keys = <<>> THEN [error |-> "none", attnums |-> attnums]
    ELSE LET atttuple == SearchSysCacheAttName(relid, Head(keys)) IN
         IF ~HeapTupleIsValid(atttuple)
         THEN [error |-> "UndefinedColumn", attnums |-> attnums]
         ELSE IF atttuple.attnum < 0
         THEN [error |-> "SystemColumnNotSupported", attnums |-> attnums]
         ELSE IF ~atttuple.lt_opr
         THEN [error |-> "NoOrderingOperator", attnums |-> attnums]
         ELSE IF Len(attnums) > STATS_MAX_DIMENSIONS
         THEN [error |-> "TooManyColumns", attnums |-> attnums]
         ELSE ResolveKeys_offByOne(relid, Tail(keys), Append(attnums, atttuple.attnum))

\* the column count checked before the name is looked up
RECURSIVE ResolveKeys_countFirst(_, _, _)
ResolveKeys_countFirst(relid, keys, attnums) ==
    IF keys = <<>> THEN [error |-> "none", attnums |-> attnums]
    ELSE LET atttuple == SearchSysCacheAttName(relid, Head(keys)) IN
         IF Len(attnums) >= STATS_MAX_DIMENSIONS
         THEN [error |-> "TooManyColumns", attnums |-> attnums]
         ELSE IF ~HeapTupleIsValid(atttuple)
         THEN [error |-> "UndefinedColumn", attnums |-> attnums]
         ELSE IF atttuple.attnum < 0
         THEN [error |-> "SystemColumnNotSupported", attnums |-> attnums]
         ELSE IF ~atttuple.lt_opr
         THEN [error |-> "NoOrderingOperator", attnums |-> attnums]
         ELSE ResolveKeys_countFirst(relid, Tail(keys), Append(attnums, atttuple.attnum))

\* foreach(l, stmt->keys): column names to attnums, with the checks of each
RECURSIVE ResolveKeys(_, _, _)
ResolveKeys(relid, keys, attnums) ==
    IF keys = <<>> THEN [error |-> "none", attnums |-> attnums]
    ELSE LET atttuple == SearchSysCacheAttName(relid, Head(keys)) IN
         IF ~HeapTupleIsValid(atttuple)
         THEN [error |-> "UndefinedColumn", attnums |-> attnums]
         ELSE IF atttuple.attnum < 0
         THEN [error |-> "SystemColumnNotSupported", attnums |-> attnums]
         ELSE IF ~atttuple.lt_opr
         THEN [error |-> "NoOrderingOperator", attnums |-> attnums]
         ELSE IF Len(attnums) >= STATS_MAX_DIMENSIONS
         THEN [error |-> "TooManyColumns", attnums |-> attnums]
         ELSE ResolveKeys(relid, Tail(keys), Append(attnums, atttuple.attnum))

\* the names the loop over stmt->keys has looked up when it ends: all of
\* them, or those up to the one it rejects
LookedUp(keys, resolved) ==
    LET n == IF resolved.error = "none" THEN Len(keys) ELSE Len(resolved.attnums) + 1
    IN  [i \in 1..n |-> Effect("lookup", keys[i])]

\* the relation is opened under ShareUpdateExclusiveLock, its kind is checked,
\* and the rest of the call follows
OpenRelation(stmt, effects) ==
    LET relid == stmt.relation
        locked == effects \o <<Effect("lock", relid)>>
    IN  IF /\ relkind(relid) # RELKIND_RELATION
           /\ relkind(relid) # RELKIND_MATVIEW
           /\ relkind(relid) # RELKIND_FOREIGN_TABLE
           /\ relkind(relid) # RELKIND_PARTITIONED_TABLE
        THEN Error("WrongObjectType", locked)
        ELSE LET resolved == ResolveKeys(relid, stmt.keys, <<>>)
                 looked == locked \o LookedUp(stmt.keys, resolved)
             IN  IF resolved.error # "none" THEN Error(resolved.error, looked)
                 ELSE NormalizeKeys(stmt, relid, resolved.attnums, looked)

\* the test of if_not_exists left out: a name in use is always skipped
CreateStatistics_alwaysSkip(stmt) ==
    IF SearchSysCacheExists2(stmt.defnames[2], stmt.defnames[1])
    THEN Result("Skipped", InvalidObjectAddress, <<Effect("notice", stmt.defnames[2])>>)
    ELSE OpenRelation(stmt, <<>>)

\* the relation opened and locked before the name is looked up
CreateStatistics_lockFirst(stmt) ==
    LET locked == <<Effect("lock", stmt.relation)>> IN
    IF SearchSysCacheExists2(stmt.defnames[2], stmt.defnames[1])
    THEN IF stmt.if_not_exists
         THEN Result("Skipped", InvalidObjectAddress,
                     locked \o <<Effect("notice", stmt.defnames[2])>>)
         ELSE Error("DuplicateObject", locked)
    ELSE OpenRelation(stmt, <<>>)

\* CreateStatistics(stmt): the outcome, the address returned and the effects
\* in the order the code performs them
CreateStatistics(stmt) ==
    IF SearchSysCacheExists2(stmt.defnames[2], stmt.defnames[1])
    THEN IF stmt.if_not_exists
         THEN Result("Skipped", InvalidObjectAddress, <<Effect("notice", stmt.defnames[2])>>)
         ELSE Error("DuplicateObject", <<>>)
    ELSE OpenRelation(stmt, <<>>)

----------------------------------------------------------------------------
(* RemoveStatisticsById *)

\* the invalidation of the owning table left out
RemoveStatisticsById_noInval(statsOid) ==
    LET tup == SearchSysCache1(statsOid) IN
    IF tup = {} THEN Error("InternalInconsistency", <<>>)
    ELSE LET statext == CHOOSE r \in tup : TRUE IN
         Result("OK", InvalidObjectAddress, <<Effect("delete", statext)>>)

\* a missing row taken for nothing to do
RemoveStatisticsById_silent(statsOid) ==
    LET tup == SearchSysCache1(statsOid) IN
    IF tup = {} THEN Result("OK", InvalidObjectAddress, <<>>)
    ELSE LET statext == CHOOSE r \in tup : TRUE IN
         Result("OK", InvalidObjectAddress,
                <<Effect("inval", statext.stxrelid), Effect("delete", statext)>>)

\* the row deleted before the invalidation is issued
RemoveStatisticsById_deleteFirst(statsOid) ==
    LET tup == SearchSysCache1(statsOid) IN
    IF tup = {} THEN Error("InternalInconsistency", <<>>)
    ELSE LET statext == CHOOSE r \in tup : TRUE IN
         Result("OK", InvalidObjectAddress,
                <<Effect("delete", statext), Effect("inval", statext.stxrelid)>>)

\* simple_heap_delete left out: the row stays
RemoveStatisticsById_noDelete(statsOid) ==
    LET tup == SearchSysCache1(statsOid) IN
    IF tup = {} THEN Error("InternalInconsistency", <<>>)
    ELSE LET statext == CHOOSE r \in tup : TRUE IN
         Result("OK", InvalidObjectAddress, <<Effect("inval", statext.stxrelid)>>)

\* RemoveStatisticsById(statsOid): the row is looked up, the relcache entry of
\* its table is invalidated, the row is deleted
RemoveStatisticsById(statsOid) ==
    LET tup == SearchSysCache1(statsOid) IN
    IF tup = {} THEN Error("InternalInconsistency", <<>>)
    ELSE LET statext == CHOOSE r \in tup : TRUE IN
         Result("OK", InvalidObjectAddress,
                <<Effect("inval", statext.stxrelid), Effect("delete", statext)>>)

----------------------------------------------------------------------------
(* DROP, as the dependency store performs it: the object goes, and with it   *)
(* the statistics objects that depend on it by an AUTO edge                  *)

\* the statistics objects that have an AUTO edge to the object
AutoDependents(object) ==
    {e.dependent.objectId :
        e \in {d \in deps : d.referenced = object /\ d.deptype = DEPENDENCY_AUTO}}

\* one statistics object is deleted: RemoveStatisticsById, then the object's
\* own dependency records
deleteOneObject(statsOid, effects) ==
    LET res == RemoveStatisticsById(statsOid) IN
    IF res.outcome # "OK" THEN Error(res.outcome, <<>>)
    ELSE Result("OK", InvalidObjectAddress,
                effects \o res.effects
                    \o <<Effect("undepend", ObjectAddressSet("StatisticExt", statsOid))>>)

RECURSIVE deleteObjects(_, _)
deleteObjects(statsOids, effects) ==
    IF statsOids = {} THEN Result("OK", InvalidObjectAddress, effects)
    ELSE LET statsOid == CHOOSE o \in statsOids : \A q \in statsOids : o <= q
             res == deleteOneObject(statsOid, effects)
         IN  IF res.outcome # "OK" THEN res
             ELSE deleteObjects(statsOids \ {statsOid}, res.effects)

\* performDeletion(object): a statistics object is deleted; a table or a
\* schema is dropped after its AUTO dependents are deleted.  An error ends
\* the transaction, and nothing of the drop remains.
performDeletion(object) ==
    IF object.classId = "StatisticExt" THEN deleteOneObject(object.objectId, <<>>)
    ELSE LET res == deleteObjects(AutoDependents(object), <<>>) IN
         IF res.outcome # "OK" THEN res
         ELSE Result("OK", InvalidObjectAddress, res.effects \o <<Effect("drop", object)>>)

----------------------------------------------------------------------------
(* The statements the callers issue *)

SeqsUpTo(S, n) == UNION {[1..k -> S] : k \in 0..n}

\* a column name CreateStatistics accepts on its own
IsLegalColumn(attname) ==
    LET atttuple == SearchSysCacheAttName("t1", attname) IN
    HeapTupleIsValid(atttuple) /\ atttuple.attnum > 0 /\ atttuple.lt_opr

\* The column lists of up to STATS_MAX_DIMENSIONS + 1 names.  The loop over
\* the names ends at the first name it rejects, so a list is enumerated up to
\* and including its first illegal name.
KeyLists ==
    {keys \in SeqsUpTo(AttNames, STATS_MAX_DIMENSIONS + 1) :
        \A i \in 1..(Len(keys) - 1) : IsLegalColumn(keys[i])}

Opt(defname, arg) == [defname |-> defname, arg |-> arg]

OptionValues ==
    {Opt("ndistinct", TRUE), Opt("ndistinct", FALSE),
     Opt("dependencies", TRUE), Opt("dependencies", FALSE),
     Opt("mcv", TRUE)}

OptionLists == SeqsUpTo(OptionValues, MaxOptions)

Stmt(defnames, if_not_exists, relation, keys, options) ==
    [defnames |-> defnames, if_not_exists |-> if_not_exists, relation |-> relation,
     keys |-> keys, options |-> options]

\* the statements of the catalog's life: several names in two schemas, and a
\* few column lists and option lists of every sort
LifecycleStmts ==
    {Stmt(d, i, r, k, o) :
        d \in {<<"n1", "s1">>, <<"n1", "s2">>, <<"n2", "s1">>},
        i \in BOOLEAN,
        r \in Relations,
        k \in {<<"a", "b">>, <<"c", "a", "b">>, <<"b", "b">>, <<"zz">>, <<"ctid", "a">>},
        o \in {<<>>, <<Opt("dependencies", TRUE)>>, <<Opt("ndistinct", FALSE)>>,
               <<Opt("mcv", TRUE)>>}}

\* every column list, under one name and a few option lists
ColumnStmts ==
    {Stmt(<<"n1", "s1">>, FALSE, r, k, o) :
        r \in {"t1", "v1"},
        k \in KeyLists,
        o \in {<<>>, <<Opt("dependencies", TRUE)>>, <<Opt("ndistinct", FALSE)>>,
               <<Opt("mcv", TRUE)>>}}

\* every option list, under one name and a few column lists
OptionStmts ==
    {Stmt(<<"n1", "s1">>, FALSE, "t1", k, o) :
        k \in {<<"a", "b">>, <<"b", "a">>, <<"a", "a">>},
        o \in OptionLists}

\* the statements issued between the DROP commands: two schemas, two tables,
\* one definition written in two ways, and two option lists
DropStmts ==
    {Stmt(d, FALSE, r, k, o) :
        d \in {<<"n1", "s1">>, <<"n2", "s1">>},
        r \in {"t1", "m1"},
        k \in {<<"a", "b">>, <<"b", "a">>},
        o \in {<<>>, <<Opt("dependencies", TRUE)>>}}

\* the statements of the concurrent sessions: one name, on two tables, with
\* column lists that resolve and that do not, and once with IF NOT EXISTS
ConcurrentStmts ==
    {Stmt(<<"n1", "s1">>, FALSE, r, k, <<>>) :
        r \in {"t1", "m1"},
        k \in {<<"a", "b">>, <<"b", "zz">>}}
    \cup {Stmt(<<"n1", "s1">>, TRUE, "t1", <<"a", "b">>, <<>>)}

----------------------------------------------------------------------------
(* The state machine *)

NoCall ==
    [op |-> "none", stmt |-> NoStmt, statsOid |-> 0, outcome |-> "none",
     address |-> InvalidObjectAddress, effects |-> <<>>,
     before |-> [rows |-> {}, deps |-> {}, pendingInval |-> <<>>, locks |-> {}]]

\* a session between two transactions
IdleSession ==
    [phase |-> "idle", stmt |-> NoStmt, todo |-> <<>>, effects |-> <<>>,
     outcome |-> "none", address |-> InvalidObjectAddress,
     locks |-> {}, inserted |-> {}, depended |-> {}, pendingInval |-> <<>>]

Init ==
    /\ rows = {}
    /\ deps = {}
    /\ pendingInval = <<>>
    /\ locks = {}
    /\ nextOid = 1
    /\ assert_enabled \in BOOLEAN
    /\ pc = "idle"
    /\ last = NoCall
    /\ dropped = {}
    /\ removed = {}
    /\ sess = [s \in Sessions |-> IdleSession]
    /\ others = {}

EffectsOf(effects, type) == SelectSeq(effects, LAMBDA e : e.type = type)

ArgsOf(effects, type) ==
    LET sel == EffectsOf(effects, type) IN [i \in 1..Len(sel) |-> sel[i].arg]

Range(seq) == {seq[i] : i \in DOMAIN seq}

\* the effects of a call take place, and the call returns
Return(op, stmt, statsOid, res) ==
    /\ rows' = (rows \ Range(ArgsOf(res.effects, "delete")))
                   \cup Range(ArgsOf(res.effects, "insert"))
    /\ deps' = {d \in deps : d.dependent \notin Range(ArgsOf(res.effects, "undepend"))}
                   \cup Range(ArgsOf(res.effects, "depend"))
    /\ pendingInval' = pendingInval \o ArgsOf(res.effects, "inval")
    /\ locks' = (locks \cup Range(ArgsOf(res.effects, "lock")))
                    \ Range(ArgsOf(res.effects, "unlock"))
    /\ nextOid' = nextOid + Len(ArgsOf(res.effects, "insert"))
    /\ last' = [op |-> op, stmt |-> stmt, statsOid |-> statsOid,
                outcome |-> res.outcome, address |-> res.address,
                effects |-> res.effects,
                before |-> [rows |-> rows, deps |-> deps,
                            pendingInval |-> pendingInval, locks |-> locks]]
    /\ pc' = "returned"
    /\ UNCHANGED <<assert_enabled, sess, others>>

\* one call of CreateStatistics
Create(stmts) ==
    /\ pc = "idle"
    /\ nextOid <= MaxOid
    /\ \E stmt \in stmts : Return("create", stmt, 0, CreateStatistics(stmt))
    /\ UNCHANGED <<dropped, removed>>

\* one call of RemoveStatisticsById
Remove ==
    /\ pc = "idle"
    /\ \E statsOid \in 1..MaxOid :
           Return("remove", NoStmt, statsOid, RemoveStatisticsById(statsOid))
    /\ UNCHANGED <<dropped, removed>>

\* the caller's transaction ends: its locks are released, its invalidations
\* are sent, and the next call starts a new transaction
FinishTransaction ==
    /\ pc = "returned"
    /\ pc' = "idle"
    /\ locks' = {}
    /\ pendingInval' = <<>>
    /\ last' = NoCall
    /\ UNCHANGED <<rows, deps, nextOid, assert_enabled, dropped, removed, sess, others>>

CreateLifecycle == Create(LifecycleStmts)
CreateColumns == Create(ColumnStmts)
CreateOptions == Create(OptionStmts)

Next == CreateLifecycle \/ Remove \/ FinishTransaction
Spec == Init /\ [][Next]_vars

NextColumns == CreateColumns \/ Remove \/ FinishTransaction
SpecColumns == Init /\ [][NextColumns]_vars

NextOptions == CreateOptions \/ Remove \/ FinishTransaction
SpecOptions == Init /\ [][NextOptions]_vars

----------------------------------------------------------------------------
(* The specification of drops *)

Namespaces == {"n1", "n2"}

\* name resolution finds the table and the schema of the statement
Resolvable(stmt) ==
    /\ ObjectAddressSet("Relation", stmt.relation) \notin dropped
    /\ ObjectAddressSet("Namespace", stmt.defnames[1]) \notin dropped

\* CREATE STATISTICS on a table and in a schema that exist
CreateResolvable == Create({stmt \in DropStmts : Resolvable(stmt)})

\* one DROP command
Drop(object) ==
    /\ pc = "idle"
    /\ object \notin dropped
    /\ LET res == performDeletion(object) IN
       /\ Return("drop", NoStmt,
                 IF object.classId = "StatisticExt" THEN object.objectId ELSE 0, res)
       /\ dropped' = dropped \cup Range(ArgsOf(res.effects, "drop"))
       /\ removed' = removed \cup
              {r \in rows : ObjectAddressSet("StatisticExt", r.oid)
                                \in Range(ArgsOf(res.effects, "undepend"))}

\* DROP STATISTICS: the name is resolved to the identifier of a row
DropStatistics == \E r \in rows : Drop(ObjectAddressSet("StatisticExt", r.oid))

\* DROP TABLE
DropRelation == \E relid \in {"t1", "m1"} : Drop(ObjectAddressSet("Relation", relid))

\* DROP SCHEMA
DropNamespace == \E nsp \in Namespaces : Drop(ObjectAddressSet("Namespace", nsp))

NextDrop ==
    CreateResolvable \/ DropStatistics \/ DropRelation \/ DropNamespace
        \/ FinishTransaction
SpecDrop == Init /\ [][NextDrop]_vars

----------------------------------------------------------------------------
(* The specification of concurrent sessions: a session performs the effects  *)
(* of its call one at a time, in the order the code performs them            *)

\* the lock manager grants mode `wanted` on the table to `who`
CanAcquire(who, relid, wanted) ==
    /\ \A o \in others : o.relid = relid => ~LockConflicts(o.mode, wanted)
    /\ \A t \in Sessions \ {who} :
           relid \in sess[t].locks => ~LockConflicts(ShareUpdateExclusiveLock, wanted)

\* the session has performed effect e and has todo left to perform
Performed(me, e, todo) ==
    [me EXCEPT !.effects = Append(@, e),
               !.todo = todo,
               !.phase = IF todo = <<>> THEN "returned" ELSE "running"]

\* a session starts a transaction and calls CreateStatistics: the name is
\* looked up, and the call ends here or goes on to open the table
Begin(s) ==
    /\ sess[s].phase = "idle"
    /\ nextOid <= MaxOid
    /\ \E stmt \in ConcurrentStmts :
           LET res == CreateStatistics(stmt) IN
           sess' = [sess EXCEPT ![s] =
                       [IdleSession EXCEPT !.phase = "running", !.stmt = stmt,
                                           !.todo = IF res.outcome = "Waiting"
                                                    THEN Append(res.effects,
                                                             Effect("insert", stmt.defnames))
                                                    ELSE res.effects,
                                           !.outcome = res.outcome,
                                           !.address = res.address]]
    /\ UNCHANGED <<rows, deps, pendingInval, locks, nextOid, assert_enabled, pc, last,
                   dropped, removed, others>>

\* the insert of a session: the identifier and the verdict of the unique
\* index are those of the moment of the insert, and the session waits while
\* the index waits
PerformInsert(s) ==
    LET me == sess[s]
        fresh == OpenRelation(me.stmt, <<>>)
        at == {i \in DOMAIN fresh.effects : fresh.effects[i].type = "insert"}
    IN  /\ fresh.outcome # "Waiting"
        /\ IF at = {}
           THEN /\ sess' = [sess EXCEPT ![s] =
                               [me EXCEPT !.todo = <<>>, !.phase = "returned",
                                          !.outcome = fresh.outcome,
                                          !.address = fresh.address]]
                /\ UNCHANGED nextOid
           ELSE LET i == CHOOSE k \in at : TRUE
                    e == fresh.effects[i]
                    todo == SubSeq(fresh.effects, i + 1, Len(fresh.effects))
                IN  /\ sess' = [sess EXCEPT ![s] =
                                   [Performed(me, e, todo) EXCEPT
                                        !.inserted = @ \cup {e.arg},
                                        !.outcome = fresh.outcome,
                                        !.address = fresh.address]]
                    /\ nextOid' = nextOid + 1

\* the next effect of a session's call takes place
Perform(s) ==
    /\ sess[s].phase = "running"
    /\ IF sess[s].todo = <<>>
       THEN /\ sess' = [sess EXCEPT ![s].phase = "returned"]
            /\ UNCHANGED nextOid
       ELSE LET me == sess[s]
                e == Head(me.todo)
                done == Performed(me, e, Tail(me.todo))
            IN  IF e.type = "insert" THEN PerformInsert(s)
                ELSE /\ e.type = "lock" => CanAcquire(s, e.arg, ShareUpdateExclusiveLock)
                     /\ sess' = [sess EXCEPT ![s] =
                            IF e.type = "lock" THEN [done EXCEPT !.locks = @ \cup {e.arg}]
                            ELSE IF e.type = "unlock" THEN [done EXCEPT !.locks = @ \ {e.arg}]
                            ELSE IF e.type = "depend"
                            THEN [done EXCEPT !.depended = @ \cup {e.arg}]
                            ELSE IF e.type = "inval"
                            THEN [done EXCEPT !.pendingInval = Append(@, e.arg)]
                            ELSE done]
                     /\ UNCHANGED nextOid
    /\ UNCHANGED <<rows, deps, pendingInval, locks, assert_enabled, pc, last,
                   dropped, removed, others>>

\* the session's transaction commits: its row and its edges become visible,
\* its invalidations are sent, its locks are released
Commit(s) ==
    /\ sess[s].phase = "returned"
    /\ rows' = rows \cup sess[s].inserted
    /\ deps' = deps \cup sess[s].depended
    /\ sess' = [sess EXCEPT ![s] = IdleSession]
    /\ UNCHANGED <<pendingInval, locks, nextOid, assert_enabled, pc, last,
                   dropped, removed, others>>

\* the session's transaction rolls back: nothing of it remains
Abort(s) ==
    /\ sess[s].phase = "returned"
    /\ sess' = [sess EXCEPT ![s] = IdleSession]
    /\ UNCHANGED <<rows, deps, pendingInval, locks, nextOid, assert_enabled, pc, last,
                   dropped, removed, others>>

\* another transaction locks a table
OtherLock ==
    /\ \E relid \in {"t1"}, mode \in LockModes :
           /\ [relid |-> relid, mode |-> mode] \notin others
           /\ CanAcquire("other", relid, mode)
           /\ others' = others \cup {[relid |-> relid, mode |-> mode]}
    /\ UNCHANGED <<rows, deps, pendingInval, locks, nextOid, assert_enabled, pc, last,
                   dropped, removed, sess>>

\* another transaction ends
OtherUnlock ==
    /\ \E o \in others : others' = others \ {o}
    /\ UNCHANGED <<rows, deps, pendingInval, locks, nextOid, assert_enabled, pc, last,
                   dropped, removed, sess>>

BeginSession == \E s \in Sessions : Begin(s)
PerformSession == \E s \in Sessions : Perform(s)
CommitSession == \E s \in Sessions : Commit(s)
AbortSession == \E s \in Sessions : Abort(s)

NextConcurrent ==
    BeginSession \/ PerformSession \/ CommitSession \/ AbortSession
        \/ OtherLock \/ OtherUnlock
SpecConcurrent == Init /\ [][NextConcurrent]_vars

----------------------------------------------------------------------------
(* What the claims speak of, stated apart from the code above *)

IsCreate == last.op = "create"
IsRemove == last.op = "remove"

\* the statement's name was in use in its schema when the call started
NameUsedBefore ==
    \E r \in last.before.rows :
        /\ r.stxname = last.stmt.defnames[2]
        /\ r.stxnamespace = last.stmt.defnames[1]

AllowedRelation == relkind(last.stmt.relation) \in {"r", "m", "f", "p"}

AllLegal(keys) == \A i \in DOMAIN keys : IsLegalColumn(keys[i])

ResolvedAttnums(keys) == [i \in DOMAIN keys |-> PgAttribute[keys[i]].attnum]

PairwiseDistinct(seq) ==
    \A i, k \in DOMAIN seq : i # k => seq[i] # seq[k]

StrictlyIncreasing(seq) ==
    \A i, k \in DOMAIN seq : i < k => seq[i] < seq[k]

\* sorted is the ascending sort of a sequence of distinct numbers
IsAscendingSortOf(sorted, seq) ==
    /\ Len(sorted) = Len(seq)
    /\ Range(sorted) = Range(seq)
    /\ StrictlyIncreasing(sorted)

RecognizedNames == {"ndistinct", "dependencies"}

AllRecognized(options) ==
    \A i \in DOMAIN options : options[i].defname \in RecognizedNames

KindChar(defname) ==
    IF defname = "ndistinct" THEN STATS_EXT_NDISTINCT ELSE STATS_EXT_DEPENDENCIES

\* the value an option list supplies for a name: that of its last mention
SuppliedValue(options, defname) ==
    LET at == {i \in DOMAIN options : options[i].defname = defname} IN
    at # {} /\ options[CHOOSE i \in at : \A k \in at : k <= i].arg

\* the kinds an option list asks for
RequestedKinds(options) ==
    IF options = <<>> THEN {KindChar(n) : n \in RecognizedNames}
    ELSE {KindChar(n) : n \in {m \in RecognizedNames : SuppliedValue(options, m)}}

\* an option list CreateStatistics is meant to accept
ValidOptions(options) ==
    AllRecognized(options) /\ RequestedKinds(options) # {}

\* the rows the call that has just returned inserted
NewRows == {r \in rows : r.oid = last.address.objectId}

CatalogUnchanged ==
    /\ rows = last.before.rows
    /\ deps = last.before.deps
    /\ pendingInval = last.before.pendingInval

----------------------------------------------------------------------------
(* The claims *)

\* C1: a creation under an unused name, on a relation of an allowed kind,
\* with valid options and 2 to STATS_MAX_DIMENSIONS column names that resolve
\* to pairwise distinct legal columns succeeds, and the column list of the
\* new row is the ascending sort of the resolved attribute numbers (so every
\* permutation of the names stores the same list).
C1_StoresSortedColumns ==
    (/\ IsCreate
     /\ ~NameUsedBefore
     /\ AllowedRelation
     /\ ValidOptions(last.stmt.options)
     /\ Len(last.stmt.keys) \in 2..STATS_MAX_DIMENSIONS
     /\ AllLegal(last.stmt.keys)
     /\ PairwiseDistinct(ResolvedAttnums(last.stmt.keys)))
    => /\ last.outcome = "OK"
       /\ NewRows # {}
       /\ \A r \in NewRows :
              IsAscendingSortOf(r.stxkeys, ResolvedAttnums(last.stmt.keys))

C1_Witness ==
    /\ IsCreate
    /\ last.outcome = "OK"
    /\ last.stmt.keys = <<"c", "a", "b">>
    /\ last.stmt.options = <<Opt("dependencies", TRUE)>>
    /\ \E r \in NewRows : r.stxkeys = <<1, 2, 3>>

\* C2: every statistics row, in every reachable catalog state, has between 2
\* and STATS_MAX_DIMENSIONS columns, all positive attribute numbers, in
\* strictly increasing order.
C2_ColumnsCanonical ==
    \A r \in rows :
        /\ Len(r.stxkeys) >= 2
        /\ Len(r.stxkeys) <= STATS_MAX_DIMENSIONS
        /\ \A i \in DOMAIN r.stxkeys : r.stxkeys[i] > 0
        /\ StrictlyIncreasing(r.stxkeys)

C2_Witness ==
    /\ IsRemove
    /\ last.outcome = "InternalInconsistency"
    /\ \E r \in rows : Len(r.stxkeys) = STATS_MAX_DIMENSIONS

\* C3: a creation without IF NOT EXISTS under a name in use fails with
\* DuplicateObject whatever else the statement holds, and leaves the rows,
\* the dependency edges and the pending invalidations as they were.
C3_DuplicateFails ==
    (IsCreate /\ NameUsedBefore /\ ~last.stmt.if_not_exists)
    => /\ last.outcome = "DuplicateObject"
       /\ CatalogUnchanged

C3_Witness ==
    /\ IsCreate
    /\ NameUsedBefore
    /\ ~last.stmt.if_not_exists
    /\ last.stmt.relation = "v1"
    /\ last.stmt.keys = <<"zz">>
    /\ last.stmt.options = <<Opt("mcv", TRUE)>>
    /\ last.outcome = "DuplicateObject"

\* C4: a creation with IF NOT EXISTS under a name in use returns the invalid
\* object address with a notice, whatever else the statement holds, and
\* changes nothing: no row, no dependency edge, no invalidation, no table lock.
C4_IfNotExistsSkips ==
    (IsCreate /\ NameUsedBefore /\ last.stmt.if_not_exists)
    => /\ last.outcome = "Skipped"
       /\ last.address = InvalidObjectAddress
       /\ last.effects = <<Effect("notice", last.stmt.defnames[2])>>
       /\ CatalogUnchanged
       /\ locks = last.before.locks

C4_Witness ==
    /\ IsCreate
    /\ NameUsedBefore
    /\ last.stmt.if_not_exists
    /\ last.stmt.relation = "v1"
    /\ last.stmt.keys = <<"b", "b">>
    /\ last.stmt.options = <<Opt("mcv", TRUE)>>
    /\ last.outcome = "Skipped"

\* C5 as stated: under an unused name and on an allowed relation, whatever the
\* column names are, fewer than 2 names fail with InvalidObjectDefinition and
\* more than STATS_MAX_DIMENSIONS names fail with TooManyColumns.
C5_ArityErrorsWhateverTheNames ==
    (IsCreate /\ ~NameUsedBefore /\ AllowedRelation)
    => /\ Len(last.stmt.keys) < 2 => last.outcome = "InvalidObjectDefinition"
       /\ Len(last.stmt.keys) > STATS_MAX_DIMENSIONS
              => last.outcome = "TooManyColumns"

\* the first n names of a column list
FirstKeys(keys, n) == SubSeq(keys, 1, IF Len(keys) < n THEN Len(keys) ELSE n)

\* C5, amended: under an unused name and on an allowed relation, a list of
\* fewer than 2 names that all resolve to legal columns fails with
\* InvalidObjectDefinition, and a list of more than STATS_MAX_DIMENSIONS names
\* whose first STATS_MAX_DIMENSIONS + 1 names all resolve to legal columns
\* fails with TooManyColumns.
C5_ArityErrorsOfLegalNames ==
    (IsCreate /\ ~NameUsedBefore /\ AllowedRelation)
    => /\ (Len(last.stmt.keys) < 2 /\ AllLegal(last.stmt.keys))
              => last.outcome = "InvalidObjectDefinition"
       /\ (/\ Len(last.stmt.keys) > STATS_MAX_DIMENSIONS
           /\ AllLegal(FirstKeys(last.stmt.keys, STATS_MAX_DIMENSIONS + 1)))
              => last.outcome = "TooManyColumns"

C5_Witness ==
    /\ IsCreate
    /\ ~NameUsedBefore
    /\ AllowedRelation
    /\ Len(last.stmt.keys) = STATS_MAX_DIMENSIONS + 1
    /\ AllLegal(last.stmt.keys)
    /\ last.outcome = "TooManyColumns"

\* C6: under an unused name and on an allowed relation, a list of 2 to
\* STATS_MAX_DIMENSIONS names that all resolve to legal columns and that
\* names some column more than once fails with DuplicateColumn, wherever the
\* repeated names sit in the list.
C6_RepeatedColumnFails ==
    (/\ IsCreate
     /\ ~NameUsedBefore
     /\ AllowedRelation
     /\ Len(last.stmt.keys) \in 2..STATS_MAX_DIMENSIONS
     /\ AllLegal(last.stmt.keys)
     /\ ~PairwiseDistinct(ResolvedAttnums(last.stmt.keys)))
    => last.outcome = "DuplicateColumn"

C6_Witness ==
    /\ IsCreate
    /\ ~NameUsedBefore
    /\ last.stmt.keys = <<"b", "a", "b">>
    /\ last.stmt.options = <<Opt("mcv", TRUE)>>
    /\ last.outcome = "DuplicateColumn"

\* the call got as far as reading its options
ReachedOptions ==
    /\ IsCreate
    /\ ~NameUsedBefore
    /\ AllowedRelation
    /\ Len(last.stmt.keys) \in 2..STATS_MAX_DIMENSIONS
    /\ AllLegal(last.stmt.keys)
    /\ PairwiseDistinct(ResolvedAttnums(last.stmt.keys))

\* C7: a creation that reads its options fails with UnrecognizedOption if and
\* only if some option name is neither ndistinct nor dependencies; and the
\* kinds of a created object are both kinds when the option list is empty and
\* otherwise exactly the kinds whose supplied value is true (the last value,
\* when an option is named more than once), so that an option supplied as
\* false still suppresses the default.
C7_KindsAsRequested ==
    /\ ReachedOptions =>
           (last.outcome = "UnrecognizedOption" <=> ~AllRecognized(last.stmt.options))
    /\ (IsCreate /\ last.outcome = "OK") =>
           /\ NewRows # {}
           /\ \A r \in NewRows :
                  /\ Range(r.stxkind) = RequestedKinds(last.stmt.options)
                  /\ PairwiseDistinct(r.stxkind)

C7_Witness ==
    /\ IsCreate
    /\ last.outcome = "OK"
    /\ last.stmt.options = <<Opt("ndistinct", FALSE), Opt("dependencies", TRUE)>>
    /\ \E r \in NewRows : r.stxkind = <<STATS_EXT_DEPENDENCIES>>

\* C8: every statistics row has a non-empty set of kinds.
C8_KindsNonEmpty ==
    \A r \in rows : r.stxkind # <<>>

ErrorKinds ==
    {"DuplicateObject", "WrongObjectType", "UndefinedColumn",
     "SystemColumnNotSupported", "NoOrderingOperator", "TooManyColumns",
     "InvalidObjectDefinition", "DuplicateColumn", "UnrecognizedOption"}

\* C9: a creation that fails with an error leaves the statistics rows, the
\* dependency edges and the pending invalidations as they were.
C9_FailedCreateChangesNothing ==
    (IsCreate /\ last.outcome \in ErrorKinds) => CatalogUnchanged

C9_Witness ==
    /\ IsCreate
    /\ last.outcome = "UnrecognizedOption"
    /\ last.before.rows # {}
    /\ rows = last.before.rows
    /\ deps = last.before.deps

\* C10: after a removal that succeeded, no row has the identifier removed or
\* the name of the removed row in its schema, an invalidation of the removed
\* row's table is pending, and every other row is as it was.
C10_RemoveDeletesRow ==
    (IsRemove /\ last.outcome = "OK")
    => \E gone \in last.before.rows :
           /\ gone.oid = last.statsOid
           /\ SearchSysCache1(last.statsOid) = {}
           /\ ~SearchSysCacheExists2(gone.stxname, gone.stxnamespace)
           /\ pendingInval = Append(last.before.pendingInval, gone.stxrelid)
           /\ rows = last.before.rows \ {gone}

C10_Witness ==
    /\ IsRemove
    /\ last.outcome = "OK"
    /\ Cardinality(last.before.rows) = 2
    /\ Cardinality(rows) = 1
    /\ \E r \in rows : r.stxrelid # pendingInval[1]

\* C11: a removal by an identifier that no row has fails with the
\* internal-inconsistency error, deletes no row and issues no invalidation.
C11_RemoveOfMissingFails ==
    (IsRemove /\ \A r \in last.before.rows : r.oid # last.statsOid)
    => /\ last.outcome = "InternalInconsistency"
       /\ last.effects = <<>>
       /\ CatalogUnchanged

\* the identifier was handed out and its row removed before: a second removal
C11_Witness ==
    /\ IsRemove
    /\ last.outcome = "InternalInconsistency"
    /\ last.statsOid < nextOid
    /\ \E e \in deps : e.dependent.objectId = last.statsOid
    /\ rows # {}
    /\ rows = last.before.rows

\* the places of the effects of one type in the call that has just returned
Places(type) == {i \in DOMAIN last.effects : last.effects[i].type = type}

Before(typeA, typeB) == \A i \in Places(typeA), k \in Places(typeB) : i < k


\* C15 as stated: in a creation that succeeds the names are looked up before
\* the row is inserted, the row is inserted before the dependency edges are
\* registered, and both edges are registered before the invalidation of the
\* owning table is issued.
C15_DependenciesBeforeInvalidation ==
    (IsCreate /\ last.outcome = "OK")
    => /\ Before("lookup", "insert")
       /\ Before("insert", "depend")
       /\ Before("depend", "inval")

\* C15, amended: in a creation that succeeds the steps happen in the order
\* lock, column resolution, catalog insert, invalidation of the owning table,
\* dependency registration: the invalidation is issued before both edges are
\* registered, the edge to the table before the edge to the schema.
C15_InvalidationBeforeDependencies ==
    (IsCreate /\ last.outcome = "OK")
    => /\ Before("lock", "lookup")
       /\ Before("lookup", "insert")
       /\ Before("insert", "inval")
       /\ Before("inval", "depend")
       /\ Cardinality(Places("insert")) = 1
       /\ Cardinality(Places("inval")) = 1
       /\ ArgsOf(last.effects, "lookup") = last.stmt.keys
       /\ LET edges == ArgsOf(last.effects, "depend") IN
          /\ Len(edges) = 2
          /\ edges[1].referenced = ObjectAddressSet("Relation", last.stmt.relation)
          /\ edges[2].referenced = ObjectAddressSet("Namespace", last.stmt.defnames[1])

C15_Witness ==
    /\ IsCreate
    /\ last.outcome = "OK"
    /\ last.stmt.relation = "m1"
    /\ last.stmt.defnames[1] = "n2"
    /\ ArgsOf(last.effects, "lookup") = <<"c", "a", "b">>
    /\ last.effects[Len(last.effects)].type = "depend"

\* C17: a creation that succeeds issues one invalidation, for its target
\* table; a removal that succeeds issues one, for the table of the removed
\* row, before it deletes the row; a call that fails or is skipped issues
\* none; so no invalidation is ever issued for another table.
C17_InvalidationByTable ==
    /\ pendingInval = last.before.pendingInval \o ArgsOf(last.effects, "inval")
    /\ (IsCreate /\ last.outcome = "OK")
           => ArgsOf(last.effects, "inval") = <<last.stmt.relation>>
    /\ (IsRemove /\ last.outcome = "OK")
           => /\ \E gone \in last.before.rows :
                     /\ gone.oid = last.statsOid
                     /\ ArgsOf(last.effects, "inval") = <<gone.stxrelid>>
              /\ Places("delete") # {}
              /\ Before("inval", "delete")
    /\ last.outcome # "OK" => ArgsOf(last.effects, "inval") = <<>>

C17_Witness ==
    /\ IsRemove
    /\ last.outcome = "OK"
    /\ pendingInval = <<"m1">>
    /\ \E r \in rows : r.stxrelid = "t1"

\* the orders in which the options of a list can be written
Reorderings(seq) ==
    {[i \in DOMAIN seq |-> seq[p[i]]] :
        p \in {q \in [DOMAIN seq -> DOMAIN seq] :
                  \A i, k \in DOMAIN seq : i # k => q[i] # q[k]}}

\* C18: the kinds of a created object are those every permutation of its
\* option list selects, option lists that repeat a name included.
C18_KindsOrderIndependent ==
    (IsCreate /\ last.outcome = "OK")
    => \A r \in NewRows :
           \A options \in Reorderings(last.stmt.options) :
               Range(SelectKinds(options).types) = Range(r.stxkind)

\* what the checks of one column name find, the name being the n-th of its list
ColumnFault(attname, n) ==
    IF attname \notin DOMAIN PgAttribute THEN "UndefinedColumn"
    ELSE IF PgAttribute[attname].attnum < 0 THEN "SystemColumnNotSupported"
    ELSE IF ~PgAttribute[attname].lt_opr THEN "NoOrderingOperator"
    ELSE IF n > STATS_MAX_DIMENSIONS THEN "TooManyColumns"
    ELSE "none"

FaultyColumns(keys) == {i \in DOMAIN keys : ColumnFault(keys[i], i) # "none"}

\* the first rule the statement breaks, in the order of the claim
FirstRuleBroken ==
    LET keys == last.stmt.keys
        faulty == FaultyColumns(keys)
        first == CHOOSE i \in faulty : \A k \in faulty : i <= k
    IN  IF NameUsedBefore
        THEN IF last.stmt.if_not_exists THEN "none" ELSE "DuplicateObject"
        ELSE IF ~AllowedRelation THEN "WrongObjectType"
        ELSE IF faulty # {} THEN ColumnFault(keys[first], first)
        ELSE IF Len(keys) < 2 THEN "InvalidObjectDefinition"
        ELSE IF ~PairwiseDistinct(ResolvedAttnums(keys)) THEN "DuplicateColumn"
        ELSE IF ~AllRecognized(last.stmt.options) THEN "UnrecognizedOption"
        ELSE "none"

----------------------------------------------------------------------------
(* Claims about drops and about re-creation *)

IsDrop == last.op = "drop"

\* the table or schema the DROP that has just returned removed
DropTargets == Range(ArgsOf(last.effects, "drop"))

AutoEdge(statoid, classId, objectId) ==
    [dependent |-> ObjectAddressSet("StatisticExt", statoid),
     referenced |-> ObjectAddressSet(classId, objectId),
     deptype |-> DEPENDENCY_AUTO]

\* the row belongs to the table, or lives in the schema
RefersTo(r, object) ==
    \/ object.classId = "Relation" /\ r.stxrelid = object.objectId
    \/ object.classId = "Namespace" /\ r.stxnamespace = object.objectId

\* C12: every successful creation records exactly two dependency edges for
\* the new object, both AUTO: one to its table, one to its schema.  With a
\* dependency store that deletes AUTO dependents on drop, every DROP of a
\* table or of a schema succeeds and removes every statistics row of that
\* table or schema, and no row ever refers to a dropped table or schema.
C12_AutoEdgesAndCascade ==
    /\ (IsCreate /\ last.outcome = "OK") =>
           /\ Len(ArgsOf(last.effects, "depend")) = 2
           /\ Range(ArgsOf(last.effects, "depend")) =
                  {AutoEdge(last.address.objectId, "Relation", last.stmt.relation),
                   AutoEdge(last.address.objectId, "Namespace", last.stmt.defnames[1])}
           /\ deps \ last.before.deps = Range(ArgsOf(last.effects, "depend"))
    /\ (IsDrop /\ last.statsOid = 0) =>
           /\ last.outcome = "OK"
           /\ DropTargets # {}
           /\ \A object \in DropTargets : \A r \in last.before.rows :
                  RefersTo(r, object) => r \notin rows
    /\ \A r \in rows : \A object \in dropped : ~RefersTo(r, object)

\* a DROP SCHEMA has removed the statistics object of a table that stays
C12_Witness ==
    /\ IsDrop
    /\ last.outcome = "OK"
    /\ \E object \in DropTargets :
           /\ object.classId = "Namespace"
           /\ \E r \in last.before.rows :
                  /\ RefersTo(r, object)
                  /\ r \notin rows
                  /\ ObjectAddressSet("Relation", r.stxrelid) \notin dropped

SameName(r, stmt) ==
    r.stxname = stmt.defnames[2] /\ r.stxnamespace = stmt.defnames[1]

\* the statement defines what the row defined: name, schema, table, columns
\* and kinds
SameDefinition(r, stmt) ==
    /\ SameName(r, stmt)
    /\ r.stxrelid = stmt.relation
    /\ IsAscendingSortOf(r.stxkeys, ResolvedAttnums(stmt.keys))
    /\ Range(r.stxkind) = RequestedKinds(stmt.options)

\* C13: after a statistics object is created and then dropped, a creation
\* with the same name and definition succeeds (it is not rejected as
\* DuplicateObject) as long as every earlier holder of the name has been
\* dropped, and the identifier of the new object differs from the
\* identifier of every dropped one.
C13_RecreateSucceeds ==
    \A r \in removed :
        (/\ IsCreate
         /\ SameDefinition(r, last.stmt)
         /\ \A q \in last.before.rows : SameName(q, last.stmt) => q \in removed)
        => /\ last.outcome = "OK"
           /\ \A q \in removed : last.address.objectId # q.oid
           /\ \E n \in rows :
                  /\ n.oid = last.address.objectId
                  /\ SameDefinition(n, last.stmt)

C13_Witness ==
    /\ IsCreate
    /\ last.outcome = "OK"
    /\ last.stmt.keys = <<"b", "a">>
    /\ \E r \in removed :
           /\ SameDefinition(r, last.stmt)
           /\ r.oid < last.address.objectId
           /\ ObjectAddressSet("Relation", r.stxrelid) \notin dropped

----------------------------------------------------------------------------
(* Claims about concurrent sessions *)

\* the rows of the catalog, committed or not
AllRows == rows \cup Uncommitted

\* C14: in every interleaving of the sessions' calls of CreateStatistics for
\* one name in one schema, at most one row of that name and schema exists at
\* any time, committed or not, also when both calls have passed the
\* existence check before either inserts.
C14_NameUniqueUnderConcurrency ==
    \A r1, r2 \in AllRows :
        (r1.stxname = r2.stxname /\ r1.stxnamespace = r2.stxnamespace) => r1 = r2

\* a call that had passed the existence check was refused at its insert,
\* and the row of the other call is the one row of the name
C14_Witness ==
    \E s \in Sessions :
        /\ sess[s].phase = "returned"
        /\ sess[s].outcome = "UniqueViolation"
        /\ \E e \in Range(sess[s].effects) : e.type = "lock"
        /\ \E r \in rows : SameName(r, sess[s].stmt) /\ r.stxrelid # sess[s].stmt.relation

PlacesIn(effects, type) == {i \in DOMAIN effects : effects[i].type = type}

\* the session's call has looked up a column name
ReachedResolution(me) == PlacesIn(me.effects, "lookup") # {}

\* C16: in every call that reaches column resolution, the lock on the
\* target table is taken before the first column name is looked up and is
\* held from then on, also when the call has returned; while it is held no
\* other transaction holds a lock of statistics maintenance or of
\* schema-changing DDL on the table; and the locks of the sessions never keep
\* a reader or a writer from its lock.
C16_LockHeldFromResolutionToReturn ==
    /\ \A s \in Sessions :
           LET me == sess[s]
               relid == me.stmt.relation
           IN  ReachedResolution(me) =>
                   /\ \E i \in PlacesIn(me.effects, "lock") :
                          /\ me.effects[i].arg = relid
                          /\ \A k \in PlacesIn(me.effects, "lookup") : i < k
                   /\ relid \in me.locks
                   /\ \A o \in others :
                          o.relid = relid =>
                              o.mode \notin {ShareUpdateExclusiveLock, AccessExclusiveLock}
                   /\ \A t \in Sessions \ {s} : relid \notin sess[t].locks
    /\ \A relid \in {"t1", "m1"}, mode \in {AccessShareLock, RowExclusiveLock} :
           (\A o \in others : o.relid = relid => o.mode # AccessExclusiveLock)
               => CanAcquire("other", relid, mode)

\* a session stands between column resolution and its insert while a reader
\* and a writer hold their locks on the table
C16_Witness ==
    \E s \in Sessions :
        /\ sess[s].phase = "running"
        /\ ReachedResolution(sess[s])
        /\ sess[s].todo # <<>>
        /\ Head(sess[s].todo).type = "insert"
        /\ [relid |-> sess[s].stmt.relation, mode |-> AccessShareLock] \in others
        /\ [relid |-> sess[s].stmt.relation, mode |-> RowExclusiveLock] \in others

====
